---- MODULE Spec2Model ----
(***************************************************************************)
(* Lazy pagination engine of upbankapi (models/pagination.py): a          *)
(* PaginatedList seeded with the first page of a listing call, growing by  *)
(* page fetches driven by item access, forward iteration and slice         *)
(* iteration.  The transport (client.api) and the server's page chain are  *)
(* modelled at their interface.                                            *)
(*                                                                         *)
(* AsyncPaginatedList inherits __init__, has_next and _handle_next; its    *)
(* __get_index, __aiter__, _fetch_to, next and _AsyncSlice run the same    *)
(* statements with an await at the call of api.  The consumer is           *)
(* sequential: one call runs at a time, and each fetch is one step.        *)
(*                                                                         *)
(* The server answers with full pages of page[size] items, the last page   *)
(* of the chain holding any number of items (none included).  The consumer *)
(* holds at most one generator at a time: creating one drops the other.    *)
(*                                                                         *)
(* Specifications: Spec, the collection under a sequential consumer;       *)
(* SpecEndless, a server whose chain of pages never ends; SpecFactory, a   *)
(* model class whose constructor can raise on an item; SpecClient, the     *)
(* calls of Client and AsyncClient (api, categorize); SpecVariants, the    *)
(* blocking and the suspending collection given the same calls;            *)
(* SpecAsync, two coroutines on one AsyncPaginatedList.                    *)
(***************************************************************************)
EXTENDS Integers, Sequences, FiniteSets, TLC

VARIABLES
    pages,      \* server: sizes of the pages of the chain, in server order
    page_size,  \* page_size argument of the listing call
    limit,      \* limit argument of the listing call, PaginatedList._limit
    elements,   \* PaginatedList._elements
    next_url,   \* PaginatedList._next_url (None or a path relative to BASE_URL)
    requests,   \* the calls of client.api made by the collection, in order
    task,       \* the call that is running, if any
    it,         \* the generator of __iter__ the consumer holds
    sl,         \* the generator of _Slice.__iter__ the consumer holds
    ret,        \* outcome of the call that completed last
    calls,      \* number of calls started by the consumer
    call,       \* a call of the client (api, categorize) and its outcome
    sync,       \* a blocking PaginatedList run beside the suspending one
    co          \* the coroutines awaiting on an AsyncPaginatedList

\* the variables the collection's own steps leave alone
xvars == <<call, sync, co>>

vars == <<pages, page_size, limit, elements, next_url, requests,
          task, it, sl, ret, calls, call, sync, co>>

----------------------------------------------------------------------------
(* Values *)

\* Python None where an int is optional (limit: int = None, slice bounds)
NoneInt == 0 - 1

\* Optional[str] None, kept apart from every string (strings are sequences
\* of character codes, all positive)
None == << 0 >>

\* const.py: BASE_URL = "https://api.up.com.au/api/v1", shortened to "http"
BASE_URL == << 104, 116, 116, 112 >>

\* str(None), as an f-string formats it
NoneStr == << 78, 111, 110, 101 >>

\* Python truthiness of an Optional[int]
TruthyInt(n) == n # NoneInt /\ n # 0

\* Python truthiness of an Optional[str]
TruthyStr(s) == s # None /\ s # << >>

----------------------------------------------------------------------------
(* Bounds of the model *)

MaxPages == 3       \* pages in the server's chain
MaxPageSize == 4    \* largest page_size argument
MaxLimit == 5       \* largest limit argument
MaxIndex == 6       \* largest index passed to __getitem__
MaxCalls == 2       \* calls started by the consumer on one collection
MaxFails == 1       \* transport errors injected in one run

\* the page_size arguments of the listing call
PageSizes == { 1, MaxPageSize - 2, MaxPageSize }

\* the indices the consumer passes to __getitem__
Indices == (0 - 1)..MaxIndex

\* the (start, stop, step) the consumer slices with
SliceArgs == { <<NoneInt, MaxIndex, NoneInt>>, <<1, MaxIndex - 1, 2>>,
               <<0, NoneInt, 1>> }

Min(a, b) == IF a < b THEN a ELSE b

\* Python's seq[:n] for n >= 0
Take(s, n) == SubSeq(s, 1, Min(n, Len(s)))

\* Python's s[n:] for n >= 0
Drop(s, n) == SubSeq(s, n + 1, Len(s))

IsPrefix(s, t) == Len(s) <= Len(t) /\ SubSeq(t, 1, Len(s)) = s

RECURSIVE SumTo(_, _)
SumTo(s, k) == IF k = 0 THEN 0 ELSE s[k] + SumTo(s, k - 1)

----------------------------------------------------------------------------
(* utils.py: Filters.__init__, the page[size] parameter of a listing call *)

FiltersPageSize(ps, lim) ==
    IF TruthyInt(lim) /\ lim < ps THEN lim ELSE ps

----------------------------------------------------------------------------
(* The server: a chain of pages.  Page k holds the items                   *)
(* Offset(k)+1 .. Offset(k)+pages[k] of the logical sequence 1..Total and  *)
(* links to page k+1 unless it is the last.                                *)

\* the chain a server holding full pages of `size` items answers with: n
\* pages, the last one holding `last` items
Chain(size, n, last) == [ k \in 1..n |-> IF k < n THEN size ELSE last ]

Total == SumTo(pages, Len(pages))

Offset(k) == SumTo(pages, k - 1)

PageItems(k) == [ i \in 1..pages[k] |-> Offset(k) + i ]

\* the server's logical sequence: the concatenation of all pages
ServerSeq == [ i \in 1..Total |-> i ]

\* the path of page k: "/" followed by the cursor k
PagePath(k) == << 47, k >>

\* the next-link the server delivers to reach page k: a full URL
NextLink(k) == BASE_URL \o PagePath(k)

\* links.next of the response carrying page k
LinkAfter(k) == IF k < Len(pages) THEN NextLink(k + 1) ELSE None

\* the JSON body of the response carrying page k
PageData(k) == [ data |-> PageItems(k), next |-> LinkAfter(k) ]

\* the page a requested URL designates, 0 if there is none (404)
Resolve(url) ==
    IF \E k \in 1..Len(pages) : url = NextLink(k)
    THEN CHOOSE k \in 1..Len(pages) : url = NextLink(k)
    ELSE 0

\* client.api: the URL requested for an endpoint
ApiUrl(endpoint) == BASE_URL \o (IF endpoint = None THEN NoneStr ELSE endpoint)

----------------------------------------------------------------------------
(* PaginatedList *)

\* __init__: self._elements, one element per item of the first page
InitElements(data) == data.data

\* __init__: strip of the next-link
InitNextUrl(link) == IF TruthyStr(link) THEN Drop(link, Len(BASE_URL)) ELSE None

\* a has_next that consults the cursor only when no limit is set
has_next_limit_first ==
    IF TruthyInt(limit) THEN Len(elements) < limit ELSE TruthyStr(next_url)

\* has_next
has_next ==
    IF ~TruthyStr(next_url) THEN FALSE
    ELSE IF TruthyInt(limit) THEN Len(elements) < limit
    ELSE TRUE

\* a _handle_next that stores the next-link as delivered
HandleNextUrlWhole(data) == data.next

\* a _handle_next that drops the cursor when the page reaches the limit
HandleNextUrlLimitClears(data) ==
    IF TruthyInt(limit) /\ Len(elements) + Len(data.data) >= limit
    THEN None
    ELSE IF TruthyStr(data.next) THEN Drop(data.next, Len(BASE_URL)) ELSE data.next

\* _handle_next: the cursor stored from a response
HandleNextUrl(data) ==
    IF TruthyStr(data.next) THEN Drop(data.next, Len(BASE_URL)) ELSE data.next

\* _handle_next: the new elements, cut down when the limit is set
Truncate(new_elements) ==
    IF TruthyInt(limit)
    THEN LET diff == Len(elements) + Len(new_elements) - limit
         IN  IF diff > 0 THEN Take(new_elements, diff - 1) ELSE new_elements
    ELSE new_elements

\* _handle_next: the value returned (new_elements after truncation)
HandleNextNew(data) == Truncate(data.data)

\* a _handle_next that rebinds _elements to the new page
HandleNextElementsRebind(data) == HandleNextNew(data)

\* _handle_next: self._elements += new_elements
HandleNextElements(data) == elements \o HandleNextNew(data)

----------------------------------------------------------------------------
(* The transport call of next(): self._client.api(self._next_url) *)

\* one call of client.api: the endpoint passed, whether the call raised, and
\* whether has_next held when next() was entered
Request(raised) == [endpoint |-> next_url, raised |-> raised, gated |-> has_next]

NFails == Cardinality({ k \in 1..Len(requests) : requests[k].raised })

\* the page the pending request designates (0: the server answers 404)
Target == Resolve(ApiUrl(next_url))

\* a next() that keeps the cursor it requested
FetchOkCursorKept ==
    /\ Target # 0
    /\ requests' = Append(requests, Request(FALSE))
    /\ next_url' = next_url
    /\ elements' = HandleNextElements(PageData(Target))

\* next(): api returns and _handle_next processes the response
FetchOk ==
    /\ Target # 0
    /\ requests' = Append(requests, Request(FALSE))
    /\ next_url' = HandleNextUrl(PageData(Target))
    /\ elements' = HandleNextElements(PageData(Target))

\* a next() that gives up its cursor before the call of api returns
FetchRaiseCursorLost ==
    /\ Target = 0 \/ NFails < MaxFails
    /\ requests' = Append(requests, Request(TRUE))
    /\ next_url' = None
    /\ UNCHANGED elements

\* next(): api raises, _handle_next is not reached
FetchRaise ==
    /\ Target = 0 \/ NFails < MaxFails
    /\ requests' = Append(requests, Request(TRUE))
    /\ UNCHANGED <<elements, next_url>>

\* a call in progress: its kind, the index it looks up, the caller of
\* __getitem__ (the consumer's list[index] or the slice generator), and
\* _elements and _next_url as they were when the call started
Len0 == IF task.kind = "idle" THEN Len(elements) ELSE task.len0

Url0 == IF task.kind = "idle" THEN next_url ELSE task.url0

\* the number of calls of api made before the call started
Req0 == IF task.kind = "idle" THEN Len(requests) ELSE task.req0

Task(kind, index, from) ==
    [kind |-> kind, index |-> index, from |-> from, len0 |-> Len0, url0 |-> Url0,
     req0 |-> Req0]

Idle == [kind |-> "idle", index |-> 0, from |-> "get", len0 |-> 0, url0 |-> None,
         req0 |-> 0]

\* no generator of __iter__ is held by the consumer
NoIter == [state |-> "none", pos |-> 0, new |-> << >>, out |-> << >>,
           clean |-> TRUE, req0 |-> 0, prevOut |-> << >>, prevStop |-> FALSE]

\* no generator of _Slice.__iter__ is held by the consumer
NoSlice == [state |-> "none", index |-> 0, end |-> 0, step |-> 1, out |-> << >>]

\* no call has completed since the running one started
NoRet == [kind |-> "none", op |-> "none", index |-> 0, value |-> 0, new |-> << >>,
          len0 |-> 0, url0 |-> None, req0 |-> 0]

\* the outcome of a call: what it returned, yielded or raised, for which
\* operation and index, and the state the call started from
Ret(kind, op, index, value, new) ==
    [kind |-> kind, op |-> op, index |-> index, value |-> value, new |-> new,
     len0 |-> Len0, url0 |-> Url0, req0 |-> Req0]

----------------------------------------------------------------------------
(* __getitem__(index: int) and _fetch_to *)

\* a _fetch_to that keeps one element ahead of the index asked for
FetchToCondAhead(index) == Len(elements) <= index + 1 /\ has_next

\* _fetch_to: the loop condition
FetchToCond(index) == Len(elements) <= index /\ has_next

\* self._elements[index]: the position a list index designates (0: IndexError)
ListIndex(index) ==
    LET i == IF index < 0 THEN index + Len(elements) ELSE index
    IN  IF 0 <= i /\ i < Len(elements) THEN i + 1 ELSE 0

\* the consumer calls list[index]
GetItem(index) ==
    /\ task.kind = "idle"
    /\ calls < MaxCalls
    /\ task' = Task("get", index, "get")
    /\ calls' = calls + 1
    /\ it' = IF it.state = "none" THEN it ELSE [it EXCEPT !.clean = FALSE]
    /\ ret' = NoRet
    /\ UNCHANGED <<xvars, pages, page_size, limit, elements, next_url, requests,
                   sl>>

\* one pass of the loop of _fetch_to: next() succeeds
FetchToNext ==
    /\ task.kind = "get"
    /\ FetchToCond(task.index)
    /\ FetchOk
    /\ UNCHANGED <<xvars, pages, page_size, limit, task, it, sl, ret, calls>>

\* one pass of the loop of _fetch_to: next() raises, and so does __getitem__
FetchToRaise ==
    /\ task.kind = "get"
    /\ FetchToCond(task.index)
    /\ FetchRaise
    /\ task' = Idle
    /\ ret' = Ret("TransportError", task.from, task.index, 0, << >>)
    /\ sl' = IF task.from = "slice" THEN [sl EXCEPT !.state = "raised"] ELSE sl
    /\ UNCHANGED <<xvars, pages, page_size, limit, it, calls>>

\* the loop of _fetch_to is over: return self._elements[index]
GetReturn ==
    /\ task.kind = "get"
    /\ ~FetchToCond(task.index)
    /\ task' = Idle
    /\ LET p == ListIndex(task.index) IN
        IF p # 0
        THEN /\ ret' = Ret("value", task.from, task.index, elements[p], << >>)
             /\ sl' = IF task.from = "slice"
                      THEN [sl EXCEPT !.out = Append(@, elements[p]),
                                      !.index = @ + sl.step]
                      ELSE sl
        ELSE /\ ret' = Ret("IndexError", task.from, task.index, 0, << >>)
             /\ sl' = IF task.from = "slice" THEN [sl EXCEPT !.state = "raised"] ELSE sl
    /\ UNCHANGED <<xvars, pages, page_size, limit, elements, next_url, requests,
                   it, calls>>

----------------------------------------------------------------------------
(* next() called by the consumer *)

NextCallGuard ==
    /\ task.kind = "idle"
    /\ calls < MaxCalls
    /\ calls' = calls + 1
    /\ it' = IF it.state = "none" THEN it ELSE [it EXCEPT !.clean = FALSE]
    /\ UNCHANGED <<xvars, pages, page_size, limit, task, sl>>

\* a next() that returns an empty list when has_next is false
NextReturnTolerant ==
    /\ NextCallGuard
    /\ IF has_next
       THEN /\ FetchOk
            /\ ret' = Ret("value", "next", 0, 0, HandleNextNew(PageData(Target)))
       ELSE /\ ret' = Ret("value", "next", 0, 0, << >>)
            /\ UNCHANGED <<elements, next_url, requests>>

\* next() called by the consumer: api returns
NextReturn ==
    /\ NextCallGuard
    /\ FetchOk
    /\ ret' = Ret("value", "next", 0, 0, HandleNextNew(PageData(Target)))

\* next() called by the consumer: api raises
NextRaise ==
    /\ NextCallGuard
    /\ FetchRaise
    /\ ret' = Ret("TransportError", "next", 0, 0, << >>)

----------------------------------------------------------------------------
(* __iter__: the generator *)

\* an __iter__ that starts over from the first page
IterFromFirstPage ==
    /\ task.kind = "idle"
    /\ calls < MaxCalls
    /\ calls' = calls + 1
    /\ it' = [state |-> "elems", pos |-> 0, new |-> << >>, out |-> << >>,
              clean |-> TRUE, req0 |-> Len(requests),
              prevOut |-> it.out,
              prevStop |-> (it.state = "stopped" /\ it.clean)]
    /\ sl' = NoSlice
    /\ ret' = NoRet
    /\ elements' = PageItems(1)
    /\ next_url' = InitNextUrl(LinkAfter(1))
    /\ UNCHANGED <<xvars, pages, page_size, limit, requests, task>>

\* iter(list): a new generator; no line of its body has run
Iter ==
    /\ task.kind = "idle"
    /\ calls < MaxCalls
    /\ calls' = calls + 1
    /\ it' = [state |-> "elems", pos |-> 0, new |-> << >>, out |-> << >>,
              clean |-> TRUE, req0 |-> Len(requests),
              prevOut |-> it.out,
              prevStop |-> (it.state = "stopped" /\ it.clean)]
    /\ sl' = NoSlice
    /\ ret' = NoRet
    /\ UNCHANGED <<xvars, pages, page_size, limit, elements, next_url, requests,
                   task>>

\* for element in self._elements: yield element
IterYieldElement ==
    /\ task.kind = "idle"
    /\ it.state = "elems"
    /\ it.pos < Len(elements)
    /\ it' = [it EXCEPT !.pos = @ + 1, !.out = Append(@, elements[it.pos + 1])]
    /\ ret' = Ret("yield", "iter", it.pos, elements[it.pos + 1], << >>)
    /\ UNCHANGED <<xvars, pages, page_size, limit, elements, next_url, requests,
                   task, sl, calls>>

\* for element in new_elements: yield element
IterYieldNew ==
    /\ task.kind \in {"idle", "iter"}
    /\ it.state = "new"
    /\ it.pos < Len(it.new)
    /\ it' = [it EXCEPT !.pos = @ + 1, !.out = Append(@, it.new[it.pos + 1])]
    /\ ret' = Ret("yield", "iter", it.pos, it.new[it.pos + 1], << >>)
    /\ task' = Idle
    /\ UNCHANGED <<xvars, pages, page_size, limit, elements, next_url, requests,
                   sl, calls>>

\* the generator stands at `while self.has_next`
IterAtWhile ==
    /\ task.kind \in {"idle", "iter"}
    /\ \/ it.state = "elems" /\ it.pos >= Len(elements)
       \/ it.state = "new" /\ it.pos >= Len(it.new)

\* new_elements = self.next()
IterNext ==
    /\ IterAtWhile
    /\ has_next
    /\ FetchOk
    /\ it' = [it EXCEPT !.state = "new", !.pos = 0,
                        !.new = HandleNextNew(PageData(Target))]
    /\ task' = Task("iter", 0, "get")
    /\ ret' = NoRet
    /\ UNCHANGED <<xvars, pages, page_size, limit, sl, calls>>

\* self.next() raises: the generator ends with the exception
IterRaise ==
    /\ IterAtWhile
    /\ has_next
    /\ FetchRaise
    /\ it' = [it EXCEPT !.state = "raised"]
    /\ task' = Idle
    /\ ret' = Ret("TransportError", "iter", 0, 0, << >>)
    /\ UNCHANGED <<xvars, pages, page_size, limit, sl, calls>>

\* has_next is false: the generator returns
IterStop ==
    /\ IterAtWhile
    /\ ~has_next
    /\ it' = [it EXCEPT !.state = "stopped"]
    /\ task' = Idle
    /\ ret' = Ret("StopIteration", "iter", 0, 0, << >>)
    /\ UNCHANGED <<xvars, pages, page_size, limit, elements, next_url, requests,
                   sl, calls>>

----------------------------------------------------------------------------
(* __getitem__(index: slice) and _Slice.__iter__ *)

\* list[start:stop:step], then iter() of the _Slice
Slice(start, stop, step) ==
    /\ task.kind = "idle"
    /\ calls < MaxCalls
    /\ calls' = calls + 1
    /\ sl' = [state |-> "run",
              index |-> IF TruthyInt(start) THEN start ELSE 0,
              end |-> stop,
              step |-> IF TruthyInt(step) THEN step ELSE 1,
              out |-> << >>]
    /\ it' = NoIter
    /\ ret' = NoRet
    /\ UNCHANGED <<xvars, pages, page_size, limit, elements, next_url, requests,
                   task>>

\* while self.__end and index < self.__end
SliceCond == TruthyInt(sl.end) /\ sl.index < sl.end

\* yield self.__list[index]: the call of __getitem__
SliceGet ==
    /\ task.kind = "idle"
    /\ sl.state = "run"
    /\ SliceCond
    /\ Len(elements) > sl.index \/ has_next
    /\ task' = Task("get", sl.index, "slice")
    /\ ret' = NoRet
    /\ UNCHANGED <<xvars, pages, page_size, limit, elements, next_url, requests,
                   it, sl, calls>>

\* the loop ends or the else branch returns
SliceStop ==
    /\ task.kind = "idle"
    /\ sl.state = "run"
    /\ ~SliceCond \/ ~(Len(elements) > sl.index \/ has_next)
    /\ sl' = [sl EXCEPT !.state = "stopped"]
    /\ ret' = Ret("StopIteration", "slice", sl.index, 0, << >>)
    /\ UNCHANGED <<xvars, pages, page_size, limit, elements, next_url, requests,
                   task, it, calls>>

\* no call of the client is looked at
NoCall == [op |-> "none"]

\* no blocking collection runs beside
NoSync == [state |-> "none"]

\* no coroutine exists
NoCo == << >>

----------------------------------------------------------------------------
Init ==
    /\ page_size \in PageSizes
    /\ limit \in {NoneInt} \cup 0..MaxLimit
    /\ \E n \in 1..MaxPages, last \in 0..FiltersPageSize(page_size, limit) :
           pages = Chain(FiltersPageSize(page_size, limit), n, last)
    /\ elements = InitElements(PageData(1))
    /\ next_url = InitNextUrl(PageData(1).next)
    /\ requests = << >>
    /\ task = Idle
    /\ it = NoIter
    /\ sl = NoSlice
    /\ ret = NoRet
    /\ calls = 0
    /\ call = NoCall
    /\ sync = NoSync
    /\ co = NoCo

Next ==
    \/ \E index \in Indices : GetItem(index)
    \/ FetchToNext
    \/ FetchToRaise
    \/ GetReturn
    \/ NextReturn
    \/ NextRaise
    \/ Iter
    \/ IterYieldElement
    \/ IterYieldNew
    \/ IterNext
    \/ IterRaise
    \/ IterStop
    \/ \E a \in SliceArgs : Slice(a[1], a[2], a[3])
    \/ SliceGet
    \/ SliceStop

Spec == Init /\ [][Next]_vars

----------------------------------------------------------------------------
(* Properties *)

\* every fetch so far was issued with has_next true (by _fetch_to, by the
\* generator, or by a consumer's next() that checked has_next first)
AllGated == \A k \in 1..Len(requests) : requests[k].gated

\* a fetch has just been processed by _handle_next
Fetched == Len(requests') > Len(requests) /\ ~requests'[Len(requests')].raised

\* C1: with limit = L >= 1, len(elements) never exceeds L, whatever get,
\* iteration, slice and fetch steps were taken (fetches gated by has_next).
C1_LimitInvariant ==
    (limit >= 1 /\ AllGated) => Len(elements) <= limit

\* C2: a successful gated fetch with limit set leaves exactly
\* min(limit, before + fetched) elements, the new ones being a prefix of the
\* fetched page.
C2_TruncationPost ==
    [][(Fetched /\ limit >= 1 /\ has_next) =>
          /\ Len(elements') = Min(limit, Len(elements) + Len(PageItems(Target)))
          /\ IsPrefix(SubSeq(elements', Len(elements) + 1, Len(elements')),
                      PageItems(Target))]_vars

\* C3: elements is append-only: each step leaves the former contents as a
\* prefix of the new contents (so size() never decreases).
C3_MonotonicGrowth == [][IsPrefix(elements, elements')]_vars

\* C3 witness: pages were fetched and appended after the first one
C3_Witness ==
    /\ Len(requests) >= 2
    /\ Len(elements) > pages[1]
    /\ it.state = "stopped"

\* C4: has_next is true iff next_cursor is set and (limit is unset or
\* len(elements) < limit).
C4_HasNextDefinition ==
    has_next <=> (next_url # None /\ (limit = NoneInt \/ Len(elements) < limit))

\* the number of items a collection exposes: min(limit, total available),
\* the limit counting as infinite when unset
EffTotal == IF limit = NoneInt THEN Total ELSE Min(limit, Total)

\* C5: a get(i) with 0 <= i < min(limit, total) that meets no transport
\* error returns the i-th item of the server's sequence.
C5_RandomAccess ==
    (/\ ret.op = "get"
     /\ ret.kind \in {"value", "IndexError"}
     /\ AllGated
     /\ 0 <= ret.index /\ ret.index < EffTotal)
    => (ret.kind = "value" /\ ret.value = ServerSeq[ret.index + 1])

\* C6: a get(i) with i at or beyond the total available, or at or beyond a
\* limit L >= 1, never returns an element: it ends in IndexError.
C6_OutOfRange ==
    (/\ ret.op = "get"
     /\ ret.kind \in {"value", "IndexError"}
     /\ AllGated
     /\ ret.index >= 0
     /\ ret.index >= Total \/ (limit >= 1 /\ ret.index >= limit))
    => ret.kind = "IndexError"

\* a call of api has just raised
Raised == Len(requests') > Len(requests) /\ requests'[Len(requests')].raised

C9_NoRedundantFetch ==
    (it.prevStop /\ it.clean /\ it.state = "stopped")
    => (Len(requests) = it.req0 /\ it.out = it.prevOut)

\* C9 witness: the first iteration fetched pages, the second has ended
C9_Witness ==
    /\ it.prevStop /\ it.clean /\ it.state = "stopped"
    /\ Len(requests) >= 1
    /\ Len(it.out) > pages[1]

\* C10: once the stored cursor is None (the last response processed had a
\* null next-link), has_next is false and stays false, whatever the limit
\* and whatever call follows.
C10_CursorTermination ==
    /\ [](next_url = None => ~has_next)
    /\ [][next_url = None => next_url' = None]_vars

\* C10 witness: a fetched response carried a null next-link while the limit
\* was not reached, and a next() called afterwards changed nothing
C10_Witness ==
    /\ Len(requests) = 2
    /\ ~requests[1].raised
    /\ requests[2].endpoint = None
    /\ next_url = None
    /\ limit >= 1 /\ Len(elements) < limit

\* C7: an uninterrupted iteration run to exhaustion has yielded exactly
\* the first min(limit, total) items of the server's sequence, in order.
C7_IterationContent ==
    (it.state = "stopped" /\ it.clean /\ AllGated /\ limit # 0)
    => it.out = Take(ServerSeq, EffTotal)

\* the start of the slice the consumer iterates (index advances by step at
\* each element yielded)
SliceStart == sl.index - Len(sl.out) * sl.step

\* the items of the server's sequence at the indices start, start + step,
\* ... that are below n
SliceItemsBelow(n) ==
    LET k == Cardinality({ j \in 0..n : SliceStart + j * sl.step < n })
    IN  [ j \in 1..k |-> ServerSeq[SliceStart + (j - 1) * sl.step + 1] ]

\* the slice generator has ended, by returning or by raising
SliceEnded == sl.state \in {"stopped", "raised"}

\* C11: a slice with a stop beyond the N items available (no limit, no
\* transport error) yields exactly the items at start, start + step, ...
\* below N and then ends normally, never by an out-of-range error, also
\* when the last page of the server is empty.
C11_SliceEarlyStop ==
    (/\ SliceEnded
     /\ NFails = 0
     /\ limit = NoneInt
     /\ TruthyInt(sl.end) /\ Total < sl.end)
    => (sl.state = "stopped" /\ sl.out = SliceItemsBelow(Total))

\* C12: a slice without stop (no limit, no transport error) yields the
\* items at start, start + step, ... up to the end of the server's
\* sequence: for step 1, everything from position start on.
C12_OpenEndedSlice ==
    (/\ SliceEnded
     /\ NFails = 0
     /\ limit = NoneInt
     /\ sl.end = NoneInt)
    => (sl.state = "stopped" /\ sl.out = SliceItemsBelow(Total))

\* ceil(a / b) for a >= 0, b >= 1
CeilDiv(a, b) == (a + b - 1) \div b

\* the collection has been consumed to exhaustion by one uninterrupted
\* iteration, every fetch gated by has_next and none failing
Exhausted == it.state = "stopped" /\ it.clean /\ NFails = 0 /\ AllGated

\* C13: once consumed to exhaustion (no transport error, server pages of
\* page[size] items, the last one not empty, limit None or >= 1), the
\* collection has issued ceil(min(limit, total) / page_size) - 1 fetches.
C13_FetchCount ==
    (/\ Exhausted
     /\ limit # 0
     /\ pages[Len(pages)] > 0)
    => Len(requests) =
           CeilDiv(EffTotal, FiltersPageSize(page_size, limit)) - 1

\* C14: __getitem__ fetches only while len(elements) <= index and has_next;
\* a get(i) with i below the size at the call makes no fetch and changes
\* nothing; with no limit, a first page of 1 element and a next-link,
\* get(1) makes exactly one fetch, and raises IndexError if that response
\* is empty with a null next-link.
C14_LazyGet ==
    /\ [][(task.kind = "get" /\ Len(requests') > Len(requests)) =>
              (Len(elements) <= task.index /\ has_next)]_vars
    /\ [][(task.kind = "get" /\ 0 <= task.index /\ task.index < task.len0) =>
              (requests' = requests /\ elements' = elements
                   /\ next_url' = next_url)]_vars
    /\ [](( /\ ret.op = "get"
            /\ ret.kind \in {"value", "IndexError"}
            /\ limit = NoneInt
            /\ ret.len0 = 1 /\ ret.url0 # None
            /\ ret.index = 1 ) =>
              /\ Len(requests) = ret.req0 + 1
              /\ pages = << 1, 0 >> => ret.kind = "IndexError"
              /\ pages[2] > 0 => (ret.kind = "value" /\ ret.value = ServerSeq[2]))

\* C14 witness: get(1) on a first page of 1 element with a next-link and no
\* limit made one fetch, got an empty last page and raised IndexError
C14_Witness ==
    /\ ret.op = "get" /\ ret.kind = "IndexError" /\ ret.index = 1
    /\ limit = NoneInt
    /\ ret.len0 = 1 /\ ret.url0 # None
    /\ pages = << 1, 0 >>
    /\ Len(requests) = ret.req0 + 1
    /\ elements = << 1 >> /\ next_url = None

\* the limit is set and the collection holds that many elements or more
LimitReached == limit # NoneInt /\ Len(elements) >= limit

\* C15: once the limit is set and reached, has_next is false whatever the
\* cursor, and no step of a get, an iteration or a slice issues a fetch
\* (the steps that are not a call of next() by the consumer).
C15_NoFetchAtLimit ==
    /\ [](LimitReached => ~has_next)
    /\ [][(LimitReached /\ calls' = calls) => requests' = requests]_vars

\* C16: whenever has_next is false the stored cursor is None.
C16_CursorNoneWithoutNext == ~has_next => next_url = None

\* the cursor a delivered next-link is stored as
CursorOf(link) ==
    IF link = None THEN None ELSE SubSeq(link, Len(BASE_URL) + 1, Len(link))

\* C16 as amended: whenever has_next is false, either the stored cursor is
\* None or a limit >= 1 is set and reached; reaching the limit does not
\* reset the cursor, which after every response processed is that
\* response's next-link without the base URL.
C16_CursorNoneOrLimitReached ==
    /\ [](~has_next => (next_url = None \/ (limit >= 1 /\ LimitReached)))
    /\ [](requests = << >> => next_url = CursorOf(LinkAfter(1)))
    /\ [][Fetched => next_url' = CursorOf(LinkAfter(Target))]_vars

\* C16 witness: a fetch reached the limit while the server had more pages:
\* has_next is false and the cursor of the next page is still stored
C16_Witness ==
    /\ limit >= 1 /\ LimitReached
    /\ ~has_next
    /\ next_url # None
    /\ Len(requests) = 1 /\ ~requests[1].raised /\ requests[1].gated
    /\ Resolve(ApiUrl(next_url)) = 3

\* the consumer's call of next() completes in this step
NextCalled == calls' > calls /\ ret'.op = "next"

\* C17: next() called while has_next is false is a no-op: it returns an
\* empty list, raises nothing and leaves elements and the cursor unchanged.
C17_TolerantMisuse ==
    [][(NextCalled /\ ~has_next) =>
          /\ ret'.kind = "value" /\ ret'.new = << >>
          /\ elements' = elements /\ next_url' = next_url]_vars

\* C17 as amended: next() always requests the stored cursor, has_next or
\* not.  With the cursor None the request fails and the error propagates,
\* elements and cursor unchanged; with the limit reached and a cursor
\* stored the page is processed like any other: the cursor is replaced by
\* the response's next-link and the elements _handle_next keeps (a prefix
\* of the page) are appended and returned.
C17_MisuseFetches ==
    [][NextCalled =>
          /\ Len(requests') = Len(requests) + 1
          /\ requests'[Len(requests')].endpoint = next_url
          /\ (~has_next /\ next_url = None) =>
                 /\ ret'.kind = "TransportError"
                 /\ elements' = elements /\ next_url' = next_url
          /\ (~has_next /\ next_url # None /\ ret'.kind = "value") =>
                 /\ next_url' = CursorOf(LinkAfter(Target))
                 /\ elements' = elements \o ret'.new
                 /\ IsPrefix(ret'.new, PageItems(Target))]_vars

\* C17 witness: a next() called with the limit reached fetched the page
\* after the stored cursor, appended elements and moved the cursor
C17_Witness ==
    /\ ret.op = "next" /\ ret.kind = "value"
    /\ limit >= 1 /\ ret.len0 >= limit
    /\ ~requests[Len(requests)].gated
    /\ ret.new # << >>
    /\ Len(elements) = ret.len0 + Len(ret.new)
    /\ next_url # ret.url0

\* C18: a get(i) with i < 0 ends in IndexError in every state; it never
\* returns an element counted from the end of the materialized elements.
C18_NegativeIndex ==
    (/\ ret.op = "get"
     /\ ret.kind \in {"value", "IndexError"}
     /\ ret.index < 0)
    => ret.kind = "IndexError"

\* C19: a collection constructed with limit = L holds at most L elements
\* before any fetch, whatever the size of the first page it was given.
C19_ConstructionTruncation ==
    (limit # NoneInt /\ requests = << >>) => Len(elements) <= limit

\* C20: every next-link the server delivers is stored without the base
\* URL, and the URL requested for it (base URL + stored cursor) is the
\* link delivered; every URL requested for a stored cursor is a link of
\* the server's chain.
C20_CursorRoundTrip ==
    /\ [](requests = << >> /\ LinkAfter(1) # None =>
              /\ ApiUrl(next_url) = LinkAfter(1)
              /\ ~IsPrefix(BASE_URL, next_url))
    /\ [][(Fetched /\ LinkAfter(Target) # None) =>
              /\ ApiUrl(next_url') = LinkAfter(Target)
              /\ ~IsPrefix(BASE_URL, next_url')]_vars
    /\ [](\A k \in 1..Len(requests) :
              requests[k].endpoint # None =>
                  \E j \in 2..Len(pages) :
                      ApiUrl(requests[k].endpoint) = NextLink(j))

\* C20 witness: the link of the first page and the link of a fetched page
\* were both stored, requested and answered
C20_Witness ==
    /\ Len(requests) = 2
    /\ ~requests[1].raised /\ ~requests[2].raised
    /\ ApiUrl(requests[1].endpoint) = NextLink(2)
    /\ ApiUrl(requests[2].endpoint) = NextLink(3)
    /\ next_url = None

\* C27: an iteration that ran to its end while other accesses fetched
\* pages between its steps (no limit, no transport error) has yielded every
\* element of the collection once and in index order.
C27_InterleavedIteration ==
    (it.state = "stopped" /\ NFails = 0 /\ limit = NoneInt)
    => it.out = elements

\* the number of fetches among the first k that were answered and processed
RECURSIVE Processed(_)
Processed(k) ==
    IF k = 0 THEN 0
    ELSE Processed(k - 1) + (IF requests[k].raised THEN 0 ELSE 1)

\* C29: under sequential use the first fetch requests the cursor of the
\* first page and every later one the cursor delivered by the response
\* processed last (the same cursor again after a failed fetch only); the
\* pages processed are pages 2, 3, ... of the chain in order, each appended
\* (as the prefix _handle_next keeps) after the elements of the former ones.
C29_CursorChain ==
    /\ [](\A k \in 1..Len(requests) :
              requests[k].endpoint =
                  IF k = 1 THEN CursorOf(LinkAfter(1))
                  ELSE IF requests[k - 1].raised THEN requests[k - 1].endpoint
                  ELSE CursorOf(LinkAfter(Resolve(ApiUrl(requests[k - 1].endpoint)))))
    /\ [][Fetched =>
              /\ Target = Processed(Len(requests)) + 2
              /\ \E n \in 0..pages[Target] :
                     elements' = elements \o Take(PageItems(Target), n)]_vars

\* C29 witness: two fetches in a row were answered, for page 2 and then
\* page 3, and the collection holds the server's sequence
C29_Witness ==
    /\ Len(requests) = 2
    /\ ~requests[1].raised /\ ~requests[2].raised
    /\ Resolve(ApiUrl(requests[1].endpoint)) = 2
    /\ Resolve(ApiUrl(requests[2].endpoint)) = 3
    /\ Len(pages) = 3 /\ pages[3] > 0
    /\ elements = ServerSeq

\* C30: with limit = 0 has_next is false in every state and no step of a
\* get, an iteration or a slice issues a fetch.
C30_LimitZero ==
    /\ [](limit = 0 => ~has_next)
    /\ [][(limit = 0 /\ calls' = calls) => requests' = requests]_vars

\* C25: the listing call requests page[size] = min(L, P) when the limit L
\* is set and P otherwise, and for L <= P the collection it returns holds
\* min(L, total) elements before any fetch.
C25_PageSizeCappedByLimit ==
    calls = 0 =>
        /\ FiltersPageSize(page_size, limit) =
               IF limit # NoneInt THEN Min(limit, page_size) ELSE page_size
        /\ (limit # NoneInt /\ limit <= page_size) =>
               (Len(elements) = Min(limit, Total) /\ requests = << >>)

----------------------------------------------------------------------------
(* The collection against a server that never ends: every page is full and *)
(* carries a next-link, the link of the last page leading back to the      *)
(* first.  The calls of api are not logged.                                *)

\* the JSON body of the response carrying page k of the endless server
EndlessPageData(k) ==
    [ data |-> PageItems(k), next |-> NextLink((k % Len(pages)) + 1) ]

\* next(): api returns and _handle_next processes the response
EndlessFetchOk ==
    /\ Target # 0
    /\ next_url' = HandleNextUrl(EndlessPageData(Target))
    /\ elements' = HandleNextElements(EndlessPageData(Target))
    /\ UNCHANGED requests

\* one pass of the loop of _fetch_to
EndlessFetchToNext ==
    /\ task.kind = "get"
    /\ FetchToCond(task.index)
    /\ EndlessFetchOk
    /\ UNCHANGED <<xvars, pages, page_size, limit, task, it, sl, ret, calls>>

\* new_elements = self.next() in the generator
EndlessIterNext ==
    /\ IterAtWhile
    /\ has_next
    /\ EndlessFetchOk
    /\ it' = [it EXCEPT !.state = "new", !.pos = 0,
                        !.new = HandleNextNew(EndlessPageData(Target))]
    /\ task' = Task("iter", 0, "get")
    /\ ret' = NoRet
    /\ UNCHANGED <<xvars, pages, page_size, limit, sl, calls>>

InitEndless ==
    /\ page_size \in PageSizes
    /\ limit \in 1..MaxLimit
    /\ pages = Chain(FiltersPageSize(page_size, limit), MaxPages,
                     FiltersPageSize(page_size, limit))
    /\ elements = InitElements(EndlessPageData(1))
    /\ next_url = InitNextUrl(EndlessPageData(1).next)
    /\ requests = << >>
    /\ task = Idle
    /\ it = NoIter
    /\ sl = NoSlice
    /\ ret = NoRet
    /\ calls = 0
    /\ call = NoCall
    /\ sync = NoSync
    /\ co = NoCo

NextEndless ==
    \/ \E index \in Indices : GetItem(index)
    \/ EndlessFetchToNext
    \/ GetReturn
    \/ Iter
    \/ IterYieldElement
    \/ IterYieldNew
    \/ EndlessIterNext
    \/ IterStop

\* the loop of _fetch_to and the consumer's loop over the generator run on
\* until they return
SpecEndless == InitEndless /\ [][NextEndless]_vars /\ WF_vars(NextEndless)

\* C21: with a limit >= 1, every get started returns and every iteration
\* started reaches its end, against a server whose pages never end.
C21_TerminationUnderLimit ==
    /\ (task.kind = "get") ~> (task.kind = "idle")
    /\ (it.state \in {"elems", "new"}) ~> (it.state = "stopped")

----------------------------------------------------------------------------
(* _handle_next when the element factory raises: self._cls(client, item)   *)
(* parses the item (ModelBase.__init__, __parse__) and raises on an item   *)
(* it cannot parse.  The cursor has been assigned by then (lines 81-83),   *)
(* the list comprehension of line 85 raises, lines 87-94 do not run.       *)

\* next(): api returns a page holding an item the factory raises on
FetchFactoryRaise ==
    /\ Target # 0
    /\ PageItems(Target) # << >>
    /\ requests' = Append(requests, Request(FALSE))
    /\ next_url' = HandleNextUrl(PageData(Target))
    /\ UNCHANGED elements

\* _fetch_to: next() raises out of _handle_next, and so does __getitem__
FetchToFactoryRaise ==
    /\ task.kind = "get"
    /\ FetchToCond(task.index)
    /\ FetchFactoryRaise
    /\ task' = Idle
    /\ ret' = Ret("FactoryError", task.from, task.index, 0, << >>)
    /\ sl' = IF task.from = "slice" THEN [sl EXCEPT !.state = "raised"] ELSE sl
    /\ UNCHANGED <<xvars, pages, page_size, limit, it, calls>>

\* next() called by the consumer raises out of _handle_next
NextFactoryRaise ==
    /\ NextCallGuard
    /\ FetchFactoryRaise
    /\ ret' = Ret("FactoryError", "next", 0, 0, << >>)

\* the generator's self.next() raises out of _handle_next
IterFactoryRaise ==
    /\ IterAtWhile
    /\ has_next
    /\ FetchFactoryRaise
    /\ it' = [it EXCEPT !.state = "raised"]
    /\ task' = Idle
    /\ ret' = Ret("FactoryError", "iter", 0, 0, << >>)
    /\ UNCHANGED <<xvars, pages, page_size, limit, sl, calls>>

NextFactory ==
    \/ \E index \in Indices : GetItem(index)
    \/ FetchToNext
    \/ FetchToRaise
    \/ FetchToFactoryRaise
    \/ GetReturn
    \/ NextReturn
    \/ NextRaise
    \/ NextFactoryRaise
    \/ Iter
    \/ IterYieldElement
    \/ IterYieldNew
    \/ IterNext
    \/ IterRaise
    \/ IterFactoryRaise
    \/ IterStop
    \/ \E a \in SliceArgs : Slice(a[1], a[2], a[3])
    \/ SliceGet
    \/ SliceStop

SpecFactory == Init /\ [][NextFactory]_vars

\* C26: every fetch attempt either stores the cursor of the response and
\* appends the elements kept of its page, or changes neither the cursor
\* nor the elements, whatever failed.
C26_FetchAllOrNothing ==
    [][Len(requests') > Len(requests) =>
          \/ /\ next_url' = CursorOf(LinkAfter(Target))
             /\ elements' = elements \o Truncate(PageItems(Target))
          \/ /\ next_url' = next_url
             /\ elements' = elements]_vars

----------------------------------------------------------------------------
(* The client: Client.api and AsyncClient.api over one HTTP response, and  *)
(* the categorize calls.  One call of the client is looked at per run.     *)

\* the status codes the server answers with
Statuses == { 200, 201, 204, 301, 304, 400, 401, 403, 404, 429, 500 }

\* the bodies of a response: a JSON object with data and links, a JSON
\* object with a non-empty list of errors, one with an empty list of
\* errors, and no content
Bodies == { "data", "errors", "errors_empty", "no_content" }

\* the X-RateLimit-Remaining header of a response (NoneInt: not sent)
RateLimits == { NoneInt, 7 }

Return(value) == [kind |-> "return", value |-> value]

Raise(exception) == [kind |-> "raise", value |-> exception]

Pending == [kind |-> "pending", value |-> "none"]

\* response.json(): the parsed body, or the decoder's exception
ResponseJson(body) ==
    IF body = "no_content" THEN Raise("JSONDecodeError") ELSE Return(body)

\* ClientBase._handle_response(data, status, headers), after the rate limit
\* has been noted
HandleResponse(data, status) ==
    IF status = 204 THEN Return("True")
    ELSE IF status >= 400
    THEN IF data = "errors"
         THEN IF status = 401 THEN Raise("NotAuthorizedException")
              ELSE IF status = 429 THEN Raise("RateLimitExceededException")
              ELSE Raise("UpBankException")
         ELSE IF data = "errors_empty" THEN Raise("IndexError")
         ELSE Raise("KeyError")
    ELSE Return(data)

\* ClientBase._handle_response: self.rate_limit.remaining
HandleResponseRateLimit(remaining, rate) ==
    IF rate # NoneInt THEN rate ELSE remaining

\* Client.api: _handle_response is called with two arguments of the three
\* it requires, which raises TypeError before its body runs
SyncApi(status, body) ==
    IF ResponseJson(body).kind = "raise" THEN ResponseJson(body)
    ELSE Raise("TypeError")

\* AsyncClient.api
AsyncApi(status, body) ==
    IF status = 204 THEN HandleResponse("empty_dict", status)
    ELSE IF ResponseJson(body).kind = "raise" THEN ResponseJson(body)
    ELSE HandleResponse(ResponseJson(body).value, status)

\* api(endpoint): the request is sent
ApiRequest(variant, status, body, rate) ==
    /\ call.op = "none"
    /\ call' = [op |-> "api", variant |-> variant, status |-> status,
                body |-> body, rate |-> rate, remaining |-> NoneInt,
                outcome |-> Pending]
    /\ UNCHANGED <<pages, page_size, limit, elements, next_url, requests,
                   task, it, sl, ret, calls, sync, co>>

\* api(endpoint): the response is handled
ApiResponse ==
    /\ call.op = "api"
    /\ call.outcome = Pending
    /\ call' = [call EXCEPT
                   !.outcome = IF call.variant = "sync"
                               THEN SyncApi(call.status, call.body)
                               ELSE AsyncApi(call.status, call.body),
                   !.remaining = IF call.variant = "sync"
                                    \/ AsyncApi(call.status, call.body).value
                                           = "JSONDecodeError"
                                 THEN @
                                 ELSE HandleResponseRateLimit(@, call.rate)]
    /\ UNCHANGED <<pages, page_size, limit, elements, next_url, requests,
                   task, it, sl, ret, calls, sync, co>>

\* the category argument of categorize: None, a category id (possibly the
\* empty string) or a PartialCategory
Categories ==
    { [kind |-> "None", id |-> << >>],
      [kind |-> "str", id |-> << >>],
      [kind |-> "str", id |-> << 97 >>],
      [kind |-> "str", id |-> << 98 >>],
      [kind |-> "PartialCategory", id |-> << 97 >>] }

\* Python truthiness of the category argument
TruthyCategory(category) ==
    category.kind = "PartialCategory"
        \/ (category.kind = "str" /\ category.id # << >>)

\* the transaction argument of categorize: a transaction id or a
\* Transaction, categorizable or not
Transactions ==
    { [kind |-> "str", id |-> << 116 >>, categorizable |-> TRUE],
      [kind |-> "Transaction", id |-> << 116 >>, categorizable |-> TRUE],
      [kind |-> "Transaction", id |-> << 116 >>, categorizable |-> FALSE] }

\* ClientBase._handle_categorize: the PATCH request issued, or ValueError
HandleCategorize(transaction, category) ==
    IF transaction.kind = "Transaction" /\ ~transaction.categorizable
    THEN Raise("ValueError")
    ELSE Return([transaction |-> transaction.id,
                 method |-> "PATCH",
                 data |-> IF TruthyCategory(category)
                          THEN [type |-> "categories", id |-> category.id]
                          ELSE [type |-> "null", id |-> << >>]])

\* Transaction.categorize / AsyncTransaction.categorize:
\* self._client.categorize(self, category=None)
TransactionCategorize(transaction, category) ==
    HandleCategorize(transaction, [kind |-> "None", id |-> << >>])

\* transaction.categorize(category) called on a Transaction
CallTransactionCategorize(variant, transaction, category) ==
    /\ call.op = "none"
    /\ transaction.kind = "Transaction"
    /\ call' = [op |-> "Transaction.categorize", variant |-> variant,
                transaction |-> transaction, category |-> category,
                outcome |-> TransactionCategorize(transaction, category)]
    /\ UNCHANGED <<pages, page_size, limit, elements, next_url, requests,
                   task, it, sl, ret, calls, sync, co>>

\* client.categorize(transaction, category)
CallClientCategorize(variant, transaction, category) ==
    /\ call.op = "none"
    /\ call' = [op |-> "Client.categorize", variant |-> variant,
                transaction |-> transaction, category |-> category,
                outcome |-> HandleCategorize(transaction, category)]
    /\ UNCHANGED <<pages, page_size, limit, elements, next_url, requests,
                   task, it, sl, ret, calls, sync, co>>

Variants == { "sync", "async" }

InitClient ==
    /\ page_size = 1
    /\ limit = NoneInt
    /\ pages = << 0 >>
    /\ elements = << >>
    /\ next_url = None
    /\ requests = << >>
    /\ task = Idle
    /\ it = NoIter
    /\ sl = NoSlice
    /\ ret = NoRet
    /\ calls = 0
    /\ call = NoCall
    /\ sync = NoSync
    /\ co = NoCo

NextClient ==
    \/ \E variant \in Variants, status \in Statuses, body \in Bodies,
          rate \in RateLimits : ApiRequest(variant, status, body, rate)
    \/ ApiResponse
    \/ \E variant \in Variants, transaction \in Transactions,
          category \in Categories :
              CallTransactionCategorize(variant, transaction, category)
    \/ \E variant \in Variants, transaction \in Transactions,
          category \in Categories :
              CallClientCategorize(variant, transaction, category)

SpecClient == InitClient /\ [][NextClient]_vars

\* what the transport contract gives for a status
TypedOutcome(status, body) ==
    IF status = 204 THEN Return("True")
    ELSE IF status >= 200 /\ status < 300 THEN Return(body)
    ELSE IF status = 401 THEN Raise("NotAuthorizedException")
    ELSE IF status = 429 THEN Raise("RateLimitExceededException")
    ELSE Raise("UpBankException")

\* the server's response is well formed: no content with 204, a JSON
\* object of data with the other 2xx, a list of errors otherwise
WellFormed(status, body) ==
    IF status = 204 THEN body = "no_content"
    ELSE IF status >= 200 /\ status < 300 THEN body = "data"
    ELSE body = "errors"

\* C23: api returns the parsed data for a success status, True for 204,
\* and raises NotAuthorizedException for 401, RateLimitExceededException
\* for 429 and UpBankException for every other non-2xx status.
C23_TypedTransportErrors ==
    (/\ call.op = "api"
     /\ call.outcome # Pending
     /\ WellFormed(call.status, call.body))
    => call.outcome = TypedOutcome(call.status, call.body)

\* C24: Transaction.categorize(c) with a category c (an id or a
\* PartialCategory) issues the request that names c, and only None gives
\* the de-categorizing request.
C24_CategorizeAssigns ==
    (/\ call.op = "Transaction.categorize"
     /\ call.outcome.kind = "return")
    => call.outcome.value.data =
           IF call.category.kind = "None"
           THEN [type |-> "null", id |-> << >>]
           ELSE [type |-> "categories", id |-> call.category.id]

----------------------------------------------------------------------------
(* The two variants side by side: a PaginatedList over the blocking Client *)
(* and an AsyncPaginatedList over the AsyncClient, built from the same     *)
(* first page and limit, against the same server, given the same calls one *)
(* after the other.  Each call runs to its end in one step; a collection   *)
(* is the record of its _elements, its _next_url and the endpoints it has  *)
(* requested.  The suspending collection is held in elements, next_url and *)
(* requests, the blocking one in sync.                                     *)

\* the suspending collection
Coll == [elements |-> elements, next_url |-> next_url, requests |-> requests]

\* has_next of a collection
HasNextOf(c) ==
    IF ~TruthyStr(c.next_url) THEN FALSE
    ELSE IF TruthyInt(limit) THEN Len(c.elements) < limit
    ELSE TRUE

\* client.api(endpoint) of a variant against the server's chain: the page
\* of the endpoint with status 200, or a 404 with its errors
ApiOf(variant, endpoint) ==
    LET k == Resolve(ApiUrl(endpoint))
        status == IF k = 0 THEN 404 ELSE 200
        body == IF k = 0 THEN "errors" ELSE "data"
        r == IF variant = "sync" THEN SyncApi(status, body)
             ELSE AsyncApi(status, body)
    IN  IF r.kind = "return" THEN [kind |-> "return", page |-> k]
        ELSE [kind |-> r.value, page |-> 0]

\* _handle_next of a collection on the response carrying page k
HandleNextOf(c, k) ==
    LET data == PageData(k)
        url == IF TruthyStr(data.next) THEN Drop(data.next, Len(BASE_URL))
               ELSE data.next
        diff == Len(c.elements) + Len(data.data) - limit
        new == IF TruthyInt(limit) /\ diff > 0 THEN Take(data.data, diff - 1)
               ELSE data.data
    IN  [c |-> [c EXCEPT !.next_url = url, !.elements = @ \o new],
         new |-> new, raised |-> "none"]

\* next() of a collection: the collection after the call, the elements
\* returned, the exception raised
NextOf(variant, c) ==
    LET r == ApiOf(variant, c.next_url)
        c1 == [c EXCEPT !.requests = Append(@, c.next_url)]
    IN  IF r.kind = "return" THEN HandleNextOf(c1, r.page)
        ELSE [c |-> c1, new |-> << >>, raised |-> r.kind]

\* _fetch_to(index) of a collection
RECURSIVE FetchToOf(_, _, _)
FetchToOf(variant, c, index) ==
    IF Len(c.elements) <= index /\ HasNextOf(c)
    THEN LET n == NextOf(variant, c)
         IN  IF n.raised # "none" THEN n
             ELSE FetchToOf(variant, n.c, index)
    ELSE [c |-> c, new |-> << >>, raised |-> "none"]

\* the outcome of a call: how it ended, the element returned, the elements
\* yielded
Outcome(kind, value, out) == [kind |-> kind, value |-> value, out |-> out]

\* __getitem__(index: int) / __get_index of a collection
GetOf(variant, c, index) ==
    LET f == FetchToOf(variant, c, index)
        i == IF index < 0 THEN index + Len(f.c.elements) ELSE index
    IN  [c |-> f.c,
         ret |-> IF f.raised # "none" THEN Outcome(f.raised, 0, << >>)
                 ELSE IF 0 <= i /\ i < Len(f.c.elements)
                 THEN Outcome("value", f.c.elements[i + 1], << >>)
                 ELSE Outcome("IndexError", 0, << >>)]

\* next() of a collection called by the consumer
NextCallOf(variant, c) ==
    LET n == NextOf(variant, c)
    IN  [c |-> n.c,
         ret |-> IF n.raised # "none" THEN Outcome(n.raised, 0, << >>)
                 ELSE Outcome("value", 0, n.new)]

\* the while loop of __iter__ / __aiter__, run until the generator ends
RECURSIVE IterLoopOf(_, _, _)
IterLoopOf(variant, c, out) ==
    IF HasNextOf(c)
    THEN LET n == NextOf(variant, c)
         IN  IF n.raised # "none"
             THEN [c |-> n.c, ret |-> Outcome(n.raised, 0, out)]
             ELSE IterLoopOf(variant, n.c, out \o n.new)
    ELSE [c |-> c, ret |-> Outcome("StopIteration", 0, out)]

\* list(collection): the generator of __iter__ / __aiter__ run to its end
ListOf(variant, c) == IterLoopOf(variant, c, c.elements)

\* the loop of _Slice.__iter__ / _AsyncSlice.__aiter__, run to its end
RECURSIVE SliceLoopOf(_, _, _, _, _, _)
SliceLoopOf(variant, c, index, end, step, out) ==
    IF TruthyInt(end) /\ index < end
    THEN IF Len(c.elements) > index \/ HasNextOf(c)
         THEN LET g == GetOf(variant, c, index)
              IN  IF g.ret.kind = "value"
                  THEN SliceLoopOf(variant, g.c, index + step, end, step,
                                   Append(out, g.ret.value))
                  ELSE [c |-> g.c, ret |-> Outcome(g.ret.kind, 0, out)]
         ELSE [c |-> c, ret |-> Outcome("StopIteration", 0, out)]
    ELSE [c |-> c, ret |-> Outcome("StopIteration", 0, out)]

\* list(collection[start:stop:step])
SliceListOf(variant, c, start, stop, step) ==
    SliceLoopOf(variant, c, IF TruthyInt(start) THEN start ELSE 0, stop,
                IF TruthyInt(step) THEN step ELSE 1, << >>)

\* both collections are given the same call: a is what it does to the
\* suspending one, b what it does to the blocking one
BothCall(a, b) ==
    /\ calls < MaxCalls
    /\ calls' = calls + 1
    /\ elements' = a.c.elements
    /\ next_url' = a.c.next_url
    /\ requests' = a.c.requests
    /\ ret' = a.ret
    /\ sync' = b
    /\ UNCHANGED <<pages, page_size, limit, task, it, sl, call, co>>

BothGet(index) ==
    BothCall(GetOf("async", Coll, index), GetOf("sync", sync.c, index))

BothNext ==
    BothCall(NextCallOf("async", Coll), NextCallOf("sync", sync.c))

BothList ==
    BothCall(ListOf("async", Coll), ListOf("sync", sync.c))

BothSliceList(start, stop, step) ==
    BothCall(SliceListOf("async", Coll, start, stop, step),
             SliceListOf("sync", sync.c, start, stop, step))

InitVariants ==
    /\ page_size \in PageSizes
    /\ limit \in {NoneInt} \cup 0..MaxLimit
    /\ \E n \in 1..MaxPages, last \in 0..FiltersPageSize(page_size, limit) :
           pages = Chain(FiltersPageSize(page_size, limit), n, last)
    /\ elements = InitElements(PageData(1))
    /\ next_url = InitNextUrl(PageData(1).next)
    /\ requests = << >>
    /\ ret = Outcome("none", 0, << >>)
    /\ sync = [c |-> [elements |-> InitElements(PageData(1)),
                      next_url |-> InitNextUrl(PageData(1).next),
                      requests |-> << >>],
               ret |-> Outcome("none", 0, << >>)]
    /\ task = Idle
    /\ it = NoIter
    /\ sl = NoSlice
    /\ calls = 0
    /\ call = NoCall
    /\ co = NoCo

NextVariants ==
    \/ \E index \in Indices : BothGet(index)
    \/ BothNext
    \/ BothList
    \/ \E a \in SliceArgs : BothSliceList(a[1], a[2], a[3])

SpecVariants == InitVariants /\ [][NextVariants]_vars

\* C22: given the same calls in the same order, the blocking and the
\* suspending collection hold the same elements and cursor after every
\* call, have requested the same endpoints in the same order, and the call
\* has ended the same way for both, with the same elements returned or
\* yielded.
C22_SyncAsyncEquivalence ==
    /\ sync.c.elements = elements
    /\ sync.c.next_url = next_url
    /\ sync.c.requests = requests
    /\ sync.ret = ret

----------------------------------------------------------------------------
(* Two __get_index coroutines on one AsyncPaginatedList, run by one event  *)
(* loop.  A coroutine runs without interruption from one await to the      *)
(* next; the only await is the one of next() on self._client.api, whose    *)
(* argument self._next_url is read when the request is made.  The          *)
(* responses of the requests in flight arrive in any order.  requests is   *)
(* the sequence of the endpoints requested.                                *)

Coroutines == { 1, 2 }

\* a coroutine not yet created
CoIdle == [pc |-> "idle", index |-> 0, url |-> None,
           ret |-> Outcome("none", 0, << >>)]

\* _fetch_to(index) and the return of __get_index on the elements e and the
\* cursor u, up to the next await: the coroutine either waits for the
\* response of its request of u or has returned
RunToAwait(index, e, u) ==
    LET c == [elements |-> e, next_url |-> u, requests |-> << >>]
        i == IF index < 0 THEN index + Len(e) ELSE index
    IN  IF Len(e) <= index /\ HasNextOf(c)
        THEN [pc |-> "await", index |-> index, url |-> u,
              ret |-> Outcome("none", 0, << >>)]
        ELSE [pc |-> "done", index |-> index, url |-> None,
              ret |-> IF 0 <= i /\ i < Len(e)
                      THEN Outcome("value", e[i + 1], << >>)
                      ELSE Outcome("IndexError", 0, << >>)]

\* the page carried by the response the coroutine waits for, had the
\* argument of api been read when the coroutine resumes
AwaitedAtResume(i) ==
    IF TruthyStr(next_url) THEN Resolve(ApiUrl(next_url))
    ELSE Resolve(ApiUrl(co[i].url))

\* the page carried by the response the coroutine waits for
Awaited(i) == Resolve(ApiUrl(co[i].url))

\* lst[index] is called and the coroutine is started
CoGet(i, index) ==
    /\ co[i].pc = "idle"
    /\ LET r == RunToAwait(index, elements, next_url)
       IN  /\ co' = [co EXCEPT ![i] = r]
           /\ requests' = IF r.pc = "await" THEN Append(requests, next_url)
                          ELSE requests
    /\ UNCHANGED <<pages, page_size, limit, elements, next_url, task, it, sl,
                   ret, calls, call, sync>>

\* the response of the coroutine's request arrives: _handle_next, then the
\* loop of _fetch_to up to the next await
CoResume(i) ==
    /\ co[i].pc = "await"
    /\ LET h == HandleNextOf(Coll, Awaited(i))
           r == RunToAwait(co[i].index, h.c.elements, h.c.next_url)
       IN  /\ elements' = h.c.elements
           /\ next_url' = h.c.next_url
           /\ co' = [co EXCEPT ![i] = r]
           /\ requests' = IF r.pc = "await"
                          THEN Append(requests, h.c.next_url)
                          ELSE requests
    /\ UNCHANGED <<pages, page_size, limit, task, it, sl, ret, calls, call,
                   sync>>

InitAsync ==
    /\ page_size \in PageSizes
    /\ limit \in {NoneInt} \cup 0..MaxLimit
    /\ \E n \in 1..MaxPages, last \in 0..FiltersPageSize(page_size, limit) :
           pages = Chain(FiltersPageSize(page_size, limit), n, last)
    /\ elements = InitElements(PageData(1))
    /\ next_url = InitNextUrl(PageData(1).next)
    /\ requests = << >>
    /\ co = [i \in Coroutines |-> CoIdle]
    /\ task = Idle
    /\ it = NoIter
    /\ sl = NoSlice
    /\ ret = NoRet
    /\ calls = 0
    /\ call = NoCall
    /\ sync = NoSync

NextAsync ==
    \/ \E i \in Coroutines, index \in Indices : CoGet(i, index)
    \/ \E i \in Coroutines : CoResume(i)

SpecAsync == InitAsync /\ [][NextAsync]_vars

\* the number of times x occurs in s
Occurrences(x, s) == Cardinality({ j \in 1..Len(s) : s[j] = x })

\* the number of requests made for page k
Requested(k) ==
    Cardinality({ j \in 1..Len(requests) : Resolve(ApiUrl(requests[j])) = k })

\* elements holds no element twice and its elements are in server order
InServerOrder ==
    \A a, b \in 1..Len(elements) : a < b => elements[a] < elements[b]

\* C28 as stated: when two get(index) coroutines interleave at the await
\* inside next, every server page is still appended at most once, elements
\* stays in server order and never holds more than limit elements.
C28_ConcurrentGetsSafe ==
    (\E k \in 1..Len(pages) : Requested(k) = Cardinality(Coroutines)) =>
        /\ InServerOrder
        /\ TruthyInt(limit) => Len(elements) <= limit

\* the part of C28 that does not depend on the limit
C28_AppendedOnce ==
    limit = NoneInt => InServerOrder

\* C28 amended: when two get(index) coroutines interleave at the await
\* inside next, each response is processed as a whole at the moment it
\* arrives: the cursor becomes the next link of the page that coroutine
\* requested and a prefix of that page is appended to elements.  A page is
\* requested at most once by each coroutine and an element is in elements at
\* most as often as its page was requested, the elements of the first page
\* exactly once.
C28_ResponsesProcessedWhole ==
    /\ [](\A k \in 1..Len(pages) :
            /\ Requested(k) <= IF k = 1 THEN 0 ELSE Cardinality(Coroutines)
            /\ \A j \in 1..Len(PageItems(k)) :
                   Occurrences(PageItems(k)[j], elements)
                       <= IF k = 1 THEN 1 ELSE Requested(k))
    /\ [](\A j \in 1..Len(PageItems(1)) : elements[j] = PageItems(1)[j])
    /\ [][\A i \in Coroutines :
            (co[i].pc = "await" /\ co'[i] # co[i]) =>
                LET k == Resolve(ApiUrl(co[i].url))
                IN  /\ k \in 2..Len(pages)
                    /\ next_url' = IF k < Len(pages) THEN PagePath(k + 1)
                                   ELSE None
                    /\ \E n \in 0..Len(PageItems(k)) :
                           elements' = elements \o Take(PageItems(k), n)]_vars

\* both coroutines have returned, a page was requested by both, and an
\* element of it is in elements twice, past the limit
C28_Witness ==
    /\ \A i \in Coroutines : co[i].pc = "done"
    /\ \E k \in 2..Len(pages) :
           /\ Requested(k) = Cardinality(Coroutines)
           /\ \E j \in 1..Len(PageItems(k)) :
                  Occurrences(PageItems(k)[j], elements) = 2
    /\ TruthyInt(limit)
    /\ Len(elements) > limit
====
